---- MODULE Spec2Model ----
(***************************************************************************)
(* Model of the two Swift code generators of the repository:               *)
(*   swift-concurrency/scripts/generate_async_code.py                      *)
(*   swift-language/scripts/generate_model.py                              *)
(*                                                                         *)
(* A Python string is modelled as a sequence of fragments (TLA+ strings)   *)
(* whose concatenation is the string.  Identifiers on which the code works *)
(* character by character are sequences of one-character fragments, a      *)
(* line break is the fragment "\n", and "\n".join / str.split / str.strip  *)
(* are operators on such sequences.                                        *)
(***************************************************************************)
EXTENDS Integers, Sequences, FiniteSets, TLC

VARIABLES
    \* generate_task_group: the emitted fan-out function
    tg_pc, items, index, group, results, output,
    \* generate_mainactor_viewmodel: the emitted view model
    vm_pc, data, isLoading, errorMessage, crashed,
    \* generate_model.py: parse_property
    pp_pc, prop_str, parsed,
    \* generate_async_code.py: generate_actor
    ac_pc, ac_name, ac_properties, code,
    \* generate_model.py: main
    gm_pc, args, properties, model_code, written

tgVars == <<tg_pc, items, index, group, results, output>>
vmVars == <<vm_pc, data, isLoading, errorMessage, crashed>>
ppVars == <<pp_pc, prop_str, parsed>>
acVars == <<ac_pc, ac_name, ac_properties, code>>
gmVars == <<gm_pc, args, properties, model_code, written>>
vars == <<tgVars, vmVars, ppVars, acVars, gmVars>>
\* what each pipeline leaves alone
tgOthers == <<vmVars, ppVars, acVars, gmVars>>
vmOthers == <<tgVars, ppVars, acVars, gmVars>>
ppOthers == <<tgVars, vmVars, acVars, gmVars>>
acOthers == <<tgVars, vmVars, ppVars, gmVars>>
gmOthers == <<tgVars, vmVars, ppVars, acVars>>

\* ------------------------------------------------------------------ bounds
MaxItems == 3
MaxCalls == 2
MaxTokenLen == 6
MaxNameLen == 3
MaxActorProps == 2
MaxFields == 2

\* ------------------------------------------------------- sequence helpers
SeqsUpTo(S, n) == UNION {[1..k -> S] : k \in 0..n}

\* the concatenation of a sequence of sequences
RECURSIVE Concat(_)
Concat(ss) ==
    IF ss = <<>> THEN <<>>
    ELSE IF Len(ss) = 1 THEN ss[1]
    ELSE LET h == Len(ss) \div 2
         IN Concat(SubSeq(ss, 1, h)) \o Concat(SubSeq(ss, h + 1, Len(ss)))

\* sep.join(parts), each part a string
RECURSIVE Join(_, _)
Join(parts, sep) ==
    IF parts = <<>> THEN <<>>
    ELSE IF Len(parts) = 1 THEN parts[1]
    ELSE LET h == Len(parts) \div 2
         IN Join(SubSeq(parts, 1, h), sep) \o sep
            \o Join(SubSeq(parts, h + 1, Len(parts)), sep)

\* s.split(sep) for a one-fragment separator: the pieces between one
\* separator (or the start) and the next (or the end).  The pieces of a
\* string are those of its two halves, the last piece of the first half
\* running on into the first piece of the second.
RECURSIVE Split(_, _)
Split(s, sep) ==
    IF s = <<>> THEN << <<>> >>
    ELSE IF Len(s) = 1 THEN (IF s[1] = sep THEN << <<>>, <<>> >> ELSE <<s>>)
    ELSE LET h == Len(s) \div 2
             l == Split(SubSeq(s, 1, h), sep)
             r == Split(SubSeq(s, h + 1, Len(s)), sep)
         IN SubSeq(l, 1, Len(l) - 1) \o << l[Len(l)] \o r[1] >> \o Tail(r)

NL == <<"\n">>
JoinLines(lines) == Join(lines, NL)
SplitLines(text) == Split(text, "\n")

\* the idle values of the pipelines a specification does not run
TGIdle == /\ tg_pc = "off" /\ items = <<>> /\ index = 0
          /\ group = [running |-> {}, completed |-> <<>>]
          /\ results = <<>> /\ output = <<>>
VMIdle == /\ vm_pc = [c \in 1..MaxCalls |-> [at |-> "off", entry |-> "none"]]
          /\ data = <<>>
          /\ isLoading = FALSE /\ errorMessage = "nil" /\ crashed = FALSE
PPIdle == pp_pc = "off" /\ prop_str = <<>> /\ parsed = <<>>
ACIdle == ac_pc = "off" /\ ac_name = <<>> /\ ac_properties = <<>> /\ code = <<>>
GMIdle == /\ gm_pc = "off" /\ args = <<>> /\ properties = <<>>
          /\ model_code = <<>> /\ written = <<>>

(***************************************************************************)
(* generate_task_group: the emitted function                               *)
(*   func NAME(items: [Item]) async throws -> [ProcessedItem]              *)
(***************************************************************************)
ItemValues == {"a", "b"}

\* process(item): the result of a task that succeeds
process(item) == <<"processed", item>>

\* results.sorted(by: { $0.0 < $1.0 }): insertion of each pair by its index
RECURSIVE InsertByIndex(_, _)
InsertByIndex(pair, sorted) ==
    IF sorted = <<>> THEN <<pair>>
    ELSE IF pair[1] < Head(sorted)[1] THEN <<pair>> \o sorted
    ELSE <<Head(sorted)>> \o InsertByIndex(pair, Tail(sorted))

RECURSIVE SortedByIndexOf(_)
SortedByIndexOf(rs) ==
    IF rs = <<>> THEN <<>>
    ELSE InsertByIndex(rs[Len(rs)], SortedByIndexOf(SubSeq(rs, 1, Len(rs) - 1)))

\* the slip of returning the pairs as collected
UnsortedResults(rs) == rs

SortedByIndex(rs) == SortedByIndexOf(rs)

\* .map { $0.1 }
MapSecond(rs) == [i \in 1..Len(rs) |-> rs[i][2]]

TGInit ==
    /\ tg_pc = "addTasks"
    /\ items \in SeqsUpTo(ItemValues, MaxItems)
    /\ index = 0
    /\ group = [running |-> {}, completed |-> <<>>]
    /\ results = <<>>
    /\ output = <<>>

\* for (index, item) in items.enumerated() { group.addTask { ... } }
\* (indices are 0-based in the emitted code; item i is items[i + 1] here)
AddTask ==
    /\ tg_pc = "addTasks"
    /\ index < Len(items)
    /\ group' = [group EXCEPT !.running = @ \cup {index}]
    /\ index' = index + 1
    /\ UNCHANGED <<tg_pc, items, results, output>>
    /\ UNCHANGED tgOthers

\* the for loop over items is exhausted; results is declared
StartCollect ==
    /\ tg_pc = "addTasks"
    /\ index = Len(items)
    /\ tg_pc' = "collect"
    /\ results' = <<>>
    /\ UNCHANGED <<items, index, group, output>>
    /\ UNCHANGED tgOthers

\* a child task returns (index, processed)
TaskReturns(i) ==
    /\ tg_pc \in {"addTasks", "collect"}
    /\ i \in group.running
    /\ group' = [running |-> group.running \ {i},
                 completed |-> Append(group.completed, <<i, process(items[i + 1])>>)]
    /\ UNCHANGED <<tg_pc, items, index, results, output>>
    /\ UNCHANGED tgOthers

\* a child task throws out of process(item)
TaskThrows(i) ==
    /\ tg_pc \in {"addTasks", "collect"}
    /\ i \in group.running
    /\ group' = [running |-> group.running \ {i},
                 completed |-> Append(group.completed, <<i, "error">>)]
    /\ UNCHANGED <<tg_pc, items, index, results, output>>
    /\ UNCHANGED tgOthers

\* for try await result in group { results.append(result) }
Collect ==
    /\ tg_pc = "collect"
    /\ group.completed # <<>>
    /\ LET result == Head(group.completed) IN
         IF result[2] = "error"
         THEN /\ tg_pc' = "thrown"
              /\ group' = [running |-> {}, completed |-> <<>>]
              /\ UNCHANGED results
         ELSE /\ results' = Append(results, result)
              /\ group' = [group EXCEPT !.completed = Tail(@)]
              /\ UNCHANGED tg_pc
    /\ UNCHANGED <<items, index, output>>
    /\ UNCHANGED tgOthers

\* return results.sorted(by: { $0.0 < $1.0 }).map { $0.1 }
Return ==
    /\ tg_pc = "collect"
    /\ group.running = {}
    /\ group.completed = <<>>
    /\ output' = MapSecond(SortedByIndex(results))
    /\ tg_pc' = "returned"
    /\ UNCHANGED <<items, index, group, results>>
    /\ UNCHANGED tgOthers

TGNext ==
    \/ AddTask
    \/ StartCollect
    \/ \E i \in 0..(MaxItems - 1) : TaskReturns(i)
    \/ \E i \in 0..(MaxItems - 1) : TaskThrows(i)
    \/ Collect
    \/ Return

InitTaskGroup == TGInit /\ VMIdle /\ PPIdle /\ ACIdle /\ GMIdle

SpecTaskGroup == InitTaskGroup /\ [][TGNext]_vars

(***************************************************************************)
(* generate_mainactor_viewmodel: the emitted @MainActor class.  Each call  *)
(* is a task on the main actor; the actor is re-entrant at every await, so *)
(* calls interleave at "await fetchData()" and "await loadData()".         *)
(***************************************************************************)
Calls == 1..MaxCalls
FetchedData == {<<"item1">>, <<"item1", "item2">>}
ErrorDescriptions == {"offline", "timeout"}
Nil == "nil"

VMInit ==
    /\ vm_pc = [c \in Calls |-> [at |-> "idle", entry |-> "none"]]
    /\ data = <<>>
    /\ isLoading = FALSE
    /\ errorMessage = Nil
    /\ crashed = FALSE

\* loadData() up to its suspension: isLoading = true; errorMessage = nil;
\* then "try await fetchData()"
BeginLoadData(c, entry) ==
    /\ isLoading' = TRUE
    /\ errorMessage' = Nil
    /\ vm_pc' = [vm_pc EXCEPT ![c] = [at |-> "fetchData", entry |-> entry]]
    /\ UNCHANGED <<data, crashed>>
    /\ UNCHANGED vmOthers

\* a caller invokes loadData()
CallLoadData(c) ==
    /\ ~crashed
    /\ vm_pc[c].at = "idle"
    /\ BeginLoadData(c, "loadData")

\* a caller invokes refresh(), which reaches "await loadData()"
CallRefresh(c) ==
    /\ ~crashed
    /\ vm_pc[c].at = "idle"
    /\ vm_pc' = [vm_pc EXCEPT ![c] = [at |-> "refresh", entry |-> "refresh"]]
    /\ UNCHANGED <<data, isLoading, errorMessage, crashed>>
    /\ UNCHANGED vmOthers

\* refresh() enters loadData()
RefreshLoadData(c) ==
    /\ ~crashed
    /\ vm_pc[c].at = "refresh"
    /\ BeginLoadData(c, "refresh")

\* the catch block left without the trailing "isLoading = false"
FetchThrowsStuck(c, e) ==
    /\ ~crashed
    /\ vm_pc[c].at = "fetchData"
    /\ errorMessage' = e
    /\ vm_pc' = [vm_pc EXCEPT ![c].at = "settled"]
    /\ UNCHANGED <<data, isLoading, crashed>>
    /\ UNCHANGED vmOthers

\* fetchData() returns d: data = d; isLoading = false
FetchReturns(c, d) ==
    /\ ~crashed
    /\ vm_pc[c].at = "fetchData"
    /\ data' = d
    /\ isLoading' = FALSE
    /\ vm_pc' = [vm_pc EXCEPT ![c].at = "settled"]
    /\ UNCHANGED <<errorMessage, crashed>>
    /\ UNCHANGED vmOthers

\* fetchData() throws: errorMessage = error.localizedDescription;
\* isLoading = false
FetchThrows(c, e) ==
    /\ ~crashed
    /\ vm_pc[c].at = "fetchData"
    /\ errorMessage' = e
    /\ isLoading' = FALSE
    /\ vm_pc' = [vm_pc EXCEPT ![c].at = "settled"]
    /\ UNCHANGED <<data, crashed>>
    /\ UNCHANGED vmOthers

\* the emitted placeholder body of fetchData(): fatalError("Not implemented")
FetchTraps(c) ==
    /\ ~crashed
    /\ vm_pc[c].at = "fetchData"
    /\ crashed' = TRUE
    /\ UNCHANGED <<vm_pc, data, isLoading, errorMessage>>
    /\ UNCHANGED vmOthers

VMNext ==
    \/ \E c \in Calls : CallLoadData(c)
    \/ \E c \in Calls : CallRefresh(c)
    \/ \E c \in Calls : RefreshLoadData(c)
    \/ \E c \in Calls : \E d \in FetchedData : FetchReturns(c, d)
    \/ \E c \in Calls : \E e \in ErrorDescriptions : FetchThrows(c, e)
    \/ \E c \in Calls : FetchTraps(c)

InitViewModel == VMInit /\ TGIdle /\ PPIdle /\ ACIdle /\ GMIdle

SpecViewModel == InitViewModel /\ [][VMNext]_vars

(***************************************************************************)
(* generate_model.py: parse_property(prop_str)                             *)
(***************************************************************************)
Chars == {"x", "T", ":", "?", " "}
Whitespace == {" ", "\t", "\n"}

\* str.strip(): leading and trailing whitespace removed
RECURSIVE LStrip(_)
LStrip(s) == IF s # <<>> /\ Head(s) \in Whitespace THEN LStrip(Tail(s)) ELSE s

RECURSIVE RStrip(_)
RStrip(s) ==
    IF s # <<>> /\ s[Len(s)] \in Whitespace
    THEN RStrip(SubSeq(s, 1, Len(s) - 1)) ELSE s

Strip(s) == RStrip(LStrip(s))

\* str.endswith(c)
EndsWith(s, c) == s # <<>> /\ s[Len(s)] = c

\* prop_str.split(':', 1): at most one split, at the first separator
RECURSIVE SplitFirst(_, _)
SplitFirst(s, sep) ==
    IF s = <<>> THEN << <<>> >>
    ELSE IF Head(s) = sep THEN << <<>>, Tail(s) >>
    ELSE LET rest == SplitFirst(Tail(s), sep) IN
         << <<Head(s)>> \o rest[1] >> \o Tail(rest)

PartsGreedy(s) == SplitFirst(s, ":")

\* parts = prop_str.split(':')
Parts(s) == Split(s, ":")

\* type_str.rstrip('?'): every trailing marker removed
RECURSIVE RStripMarker(_)
RStripMarker(type_str) ==
    IF EndsWith(type_str, "?")
    THEN RStripMarker(SubSeq(type_str, 1, Len(type_str) - 1)) ELSE type_str

\* type_str[:-1]
DropLast(type_str) == SubSeq(type_str, 1, Len(type_str) - 1)

parse_property(s) ==
    LET parts == Parts(s) IN
    IF Len(parts) # 2 THEN <<"raised", "ValueError">>
    ELSE LET name == Strip(parts[1])
             type_str == Strip(parts[2])
             is_optional == EndsWith(type_str, "?")
         IN <<"returned",
              <<name, IF is_optional THEN DropLast(type_str) ELSE type_str, is_optional>> >>

PPInit ==
    /\ pp_pc = "call"
    /\ prop_str \in SeqsUpTo(Chars, MaxTokenLen)
    /\ parsed = <<>>

ParseProperty ==
    /\ pp_pc = "call"
    /\ parsed' = parse_property(prop_str)
    /\ pp_pc' = "done"
    /\ UNCHANGED prop_str
    /\ UNCHANGED ppOthers

PPNext == ParseProperty

InitParse == PPInit /\ TGIdle /\ VMIdle /\ ACIdle /\ GMIdle

SpecParse == InitParse /\ [][PPNext]_vars

(***************************************************************************)
(* generate_async_code.py: generate_actor(name, properties)                *)
(***************************************************************************)
\* the letters of the model's identifiers: <<lower case, upper case>>
LetterPairs == {<<"l", "L">>, <<"u", "U">>, <<"d", "D">>, <<"s", "S">>,
                <<"e", "E">>, <<"r", "R">>, <<"p", "P">>, <<"o", "O">>}

\* str.upper() / str.lower() of one character
ToUpper(c) == IF \E p \in LetterPairs : p[1] = c
              THEN (CHOOSE p \in LetterPairs : p[1] = c)[2] ELSE c
ToLower(c) == IF \E p \in LetterPairs : p[2] = c
              THEN (CHOOSE p \in LetterPairs : p[2] = c)[1] ELSE c

\* str.lower()
Lower(s) == [i \in 1..Len(s) |-> ToLower(s[i])]

\* str.capitalize(): first character upper-cased, the rest lower-cased
Capitalize(s) ==
    IF s = <<>> THEN <<>>
    ELSE <<ToUpper(s[1])>> \o [i \in 1..(Len(s) - 1) |-> ToLower(s[i + 1])]

PropertyVar(p) == <<"    private var ">> \o p[1] \o <<": ">> \o p[2]
InitParam(p) == <<"        ">> \o p[1] \o <<": ">> \o p[2]
InitAssign(p) == <<"        self.">> \o p[1] \o <<" = ">> \o p[1]

Getter(p) ==
    << <<"    func get">> \o Capitalize(p[1]) \o <<"() -> ">> \o p[2] \o <<" {">>,
       <<"        return ">> \o p[1],
       <<"    }">>,
       <<>> >>

Setter(p) ==
    << <<"    func set">> \o Capitalize(p[1]) \o <<"(_ newValue: ">> \o p[2] \o <<") {">>,
       <<"        ">> \o p[1] \o <<" = newValue">>,
       <<"    }">>,
       <<>> >>

generate_actor(name, props) ==
    JoinLines(
        << <<"// ">> \o name \o <<" - Generated Actor">>,
           <<>>,
           <<"import Foundation">>,
           <<>>,
           <<"actor ">> \o name \o <<" {">> >>
        \o [i \in 1..Len(props) |-> PropertyVar(props[i])]
        \o << <<>>,
              <<"    // MARK: - Initialization">>,
              <<>>,
              <<"    init(">> >>
        \o << Join([i \in 1..Len(props) |-> InitParam(props[i])], <<",", "\n">>) >>
        \o << <<"    ) {">> >>
        \o [i \in 1..Len(props) |-> InitAssign(props[i])]
        \o << <<"    }">>,
              <<>>,
              <<"    // MARK: - Getters">>,
              <<>> >>
        \o Concat([i \in 1..Len(props) |-> Getter(props[i])])
        \o << <<"    // MARK: - Setters">>,
              <<>> >>
        \o Concat([i \in 1..Len(props) |-> Setter(props[i])])
        \o << <<"}">> >>)

NameChars == {"l", "U", "d"}
ActorNames == {<<"DataStore">>}
ActorTypes == {<<"Date?">>, <<"[String: Any]">>}
PropNames == SeqsUpTo(NameChars, MaxNameLen) \ {<<>>}

ACInit ==
    /\ ac_pc = "call"
    /\ ac_name \in ActorNames
    /\ ac_properties \in SeqsUpTo(PropNames \X ActorTypes, MaxActorProps)
    /\ code = <<>>

\* code = generate_actor(args.name, properties)
GenerateActor ==
    /\ ac_pc = "call"
    /\ code' = generate_actor(ac_name, ac_properties)
    /\ ac_pc' = "done"
    /\ UNCHANGED <<ac_name, ac_properties>>
    /\ UNCHANGED acOthers

ACNext == GenerateActor

InitActor == ACInit /\ TGIdle /\ VMIdle /\ PPIdle /\ GMIdle

SpecActor == InitActor /\ [][ACNext]_vars

(***************************************************************************)
(* generate_model.py: generate_swift_model, generate_example_usage, main   *)
(* A field is <<prop_name, prop_type, is_optional>>, as parse_property     *)
(* returns it.                                                             *)
(***************************************************************************)
OptionalMarker(p) == IF p[3] THEN <<"?">> ELSE <<>>

\* protocol_str
ProtocolStr(codable, identifiable) ==
    LET protocols == (IF codable THEN << <<"Codable">> >> ELSE <<>>)
                     \o (IF identifiable THEN << <<"Identifiable">> >> ELSE <<>>)
    IN IF protocols # <<>> THEN <<": ">> \o Join(protocols, <<", ">>) ELSE <<>>

PropertyLet(p) == <<"    let ">> \o p[1] \o <<": ">> \o p[2] \o OptionalMarker(p)

InitSignatureParam(p) ==
    p[1] \o <<": ">> \o p[2] \o OptionalMarker(p)
         \o (IF p[3] THEN <<" = nil">> ELSE <<>>)

\* the lines of the custom initializer
InitLines(props) ==
    << <<>>,
       <<"    // MARK: - Initialization">>,
       <<>>,
       <<"    init(">>
          \o Join([i \in 1..Len(props) |-> InitSignatureParam(props[i])], <<", ">>)
          \o <<") {">> >>
    \o [i \in 1..Len(props) |-> InitAssign(props[i])]
    \o << <<"    }">> >>

\* "if with_init:" without "and properties"
InitBlockUnguarded(props, with_init) ==
    IF with_init THEN InitLines(props) ELSE <<>>

\* if with_init and properties: ...
InitBlock(props, with_init) ==
    IF with_init /\ props # <<>> THEN InitLines(props) ELSE <<>>

generate_swift_model(name, props, codable, identifiable, with_init) ==
    JoinLines(
        << <<"struct ">> \o name \o ProtocolStr(codable, identifiable) \o <<" {">> >>
        \o [i \in 1..Len(props) |-> PropertyLet(props[i])]
        \o InitBlock(props, with_init)
        \o << <<"}">> >>)

\* the dispatch with optionality tested before the type table
ExampleValueOptionalFirst(p) ==
    IF p[3] THEN <<"nil">>
    ELSE IF p[2] = <<"String">> THEN <<"\"">> \o p[1] \o <<"_value\"">>
    ELSE IF p[2] = <<"Int">> THEN <<"42">>
    ELSE IF p[2] = <<"Double">> \/ p[2] = <<"Float">> THEN <<"3.14">>
    ELSE IF p[2] = <<"Bool">> THEN <<"true">>
    ELSE p[2] \o <<"()">>

\* value, by prop_type
ExampleValue(p) ==
    IF p[2] = <<"String">> THEN <<"\"">> \o p[1] \o <<"_value\"">>
    ELSE IF p[2] = <<"Int">> THEN <<"42">>
    ELSE IF p[2] = <<"Double">> \/ p[2] = <<"Float">> THEN <<"3.14">>
    ELSE IF p[2] = <<"Bool">> THEN <<"true">>
    ELSE IF ~p[3] THEN p[2] \o <<"()">> ELSE <<"nil">>

\* params.append(f"{prop_name}: {value}")
ExampleParam(p) == p[1] \o <<": ">> \o ExampleValue(p)

\* lines.append(f"    {param}{comma}") for i, param in enumerate(params)
ExampleParamLines(params) ==
    [i \in 1..Len(params) |->
        <<"    ">> \o params[i] \o (IF i - 1 < Len(params) - 1 THEN <<",">> ELSE <<>>)]

generate_example_usage(name, props) ==
    JoinLines(
        << <<>>,
           <<"// MARK: - Example Usage">>,
           <<>>,
           <<"// Create instance">> >>
        \o << <<"let ">> \o Lower(name) \o <<" = ">> \o name \o <<"(">> >>
        \o ExampleParamLines([i \in 1..Len(props) |-> ExampleParam(props[i])])
        \o << <<")">> >>
        \o << <<>>,
              <<"// Encode to JSON">>,
              <<"let encoder = JSONEncoder()">>,
              <<"encoder.outputFormatting = .prettyPrinted">>,
              <<"if let jsonData = try? encoder.encode(", "u", "s", "e", "r", "),">>,
              <<"   let jsonString = String(data: jsonData, encoding: .utf8) {">>,
              <<"    print(jsonString)">>,
              <<"}">>,
              <<>>,
              <<"// Decode from JSON">>,
              <<"let decoder = JSONDecoder()">>,
              <<"if let decoded = try? decoder.decode(", "U", "s", "e", "r",
                ".self, from: jsonData) {">>,
              <<"    print(decoded)">>,
              <<"}">> >>)

ModelNames == {<<"U", "s", "e", "r">>, <<"P", "o", "d">>}
FieldTypes == {<<"String">>, <<"Int">>, <<"Double">>, <<"Float">>, <<"Bool">>, <<"UUID">>}
\* the fields of the runs that vary every flag
ModelFields == {<<"id">>, <<"tag">>} \X {<<"String">>, <<"UUID">>} \X BOOLEAN
\* the fields of the runs that vary the field types
ExampleFields == ({<<"id">>} \X FieldTypes \X BOOLEAN)
                 \cup ({<<"tag">>} \X {<<"String">>, <<"UUID">>} \X BOOLEAN)

\* args and properties as main() holds them at line 212, or as a direct
\* caller of generate_swift_model passes them
GMInit ==
    /\ gm_pc = "generate"
    /\ args \in [name : ModelNames, codable : BOOLEAN, identifiable : BOOLEAN,
                 with_init : BOOLEAN, example : BOOLEAN]
    /\ properties \in SeqsUpTo(ModelFields, MaxFields)
    /\ model_code = <<>>
    /\ written = <<>>

\* the same with the conformance and initializer flags at their defaults
\* (no --no-codable, --identifiable or --no-init) and every field type
GMInitDefaults ==
    /\ gm_pc = "generate"
    /\ args \in [name : ModelNames, codable : {TRUE}, identifiable : {FALSE},
                 with_init : {TRUE}, example : BOOLEAN]
    /\ properties \in SeqsUpTo(ExampleFields, MaxFields)
    /\ model_code = <<>>
    /\ written = <<>>

\* model_code = generate_swift_model(...)
GenerateModel ==
    /\ gm_pc = "generate"
    /\ model_code' = generate_swift_model(args.name, properties, args.codable,
                                          args.identifiable, args.with_init)
    /\ gm_pc' = "example"
    /\ UNCHANGED <<args, properties, written>>
    /\ UNCHANGED gmOthers

\* if args.example: model_code += generate_example_usage(args.name, properties)
AddExample ==
    /\ gm_pc = "example"
    /\ args.example
    /\ model_code' = model_code \o generate_example_usage(args.name, properties)
    /\ gm_pc' = "output"
    /\ UNCHANGED <<args, properties, written>>
    /\ UNCHANGED gmOthers

SkipExample ==
    /\ gm_pc = "example"
    /\ ~args.example
    /\ gm_pc' = "output"
    /\ UNCHANGED <<args, properties, model_code, written>>
    /\ UNCHANGED gmOthers

\* f.write(model_code + "\n"), or print(model_code)
Output ==
    /\ gm_pc = "output"
    /\ written' = model_code \o NL
    /\ gm_pc' = "done"
    /\ UNCHANGED <<args, properties, model_code>>
    /\ UNCHANGED gmOthers

GMNext == GenerateModel \/ AddExample \/ SkipExample \/ Output

InitModel == GMInit /\ TGIdle /\ VMIdle /\ PPIdle /\ ACIdle

SpecModel == InitModel /\ [][GMNext]_vars

InitExample == GMInitDefaults /\ TGIdle /\ VMIdle /\ PPIdle /\ ACIdle

SpecExample == InitExample /\ [][GMNext]_vars

(***************************************************************************)
(* Properties                                                              *)
(***************************************************************************)
StartsWith(line, frag) == line # <<>> /\ line[1] = frag
LinesStarting(text, frag) == SelectSeq(SplitLines(text), LAMBDA l : StartsWith(l, frag))
HasLine(text, line) ==
    LET lines == SplitLines(text) IN \E i \in 1..Len(lines) : lines[i] = line
IndexOfLine(lines, line) == CHOOSE i \in 1..Len(lines) : lines[i] = line
IndexOfFragment(line, frag) == CHOOSE i \in 1..Len(line) : line[i] = frag

\* C1: when the emitted fan-out function returns (every task succeeded, in
\* whatever order the tasks completed), its output is as long as the input
\* and its element at position i is the processed result of input item i.
C1_OutputInInputOrder ==
    tg_pc = "returned" =>
        /\ Len(output) = Len(items)
        /\ \A i \in 1..Len(items) : output[i] = process(items[i])

\* the last task added completed first, over distinct items
C1_Witness ==
    /\ tg_pc = "returned"
    /\ Len(items) = MaxItems
    /\ items[1] # items[MaxItems]
    /\ results[1][1] = MaxItems - 1
    /\ results[MaxItems][1] = 0

\* C2: loadData sets isLoading and clears errorMessage before it attempts
\* the fetch; whenever a loadData settles (fetch returned, or fetch threw and
\* the error was captured) isLoading is false afterwards; and with no call in
\* flight isLoading is false, whether loadData was called directly or
\* through refresh.
FetchAttempted(c) == vm_pc[c].at # "fetchData" /\ vm_pc'[c].at = "fetchData"
LoadDataSettles(c) == vm_pc[c].at = "fetchData" /\ vm_pc'[c].at = "settled"
NoCallInFlight == \A c \in Calls : vm_pc[c].at \notin {"refresh", "fetchData"}

C2_LoadingClearedOnSettle ==
    /\ [][\A c \in Calls : FetchAttempted(c) => isLoading' /\ errorMessage' = Nil]_vars
    /\ [][\A c \in Calls : LoadDataSettles(c) => ~isLoading']_vars
    /\ [](NoCallInFlight => ~isLoading)

\* a loadData reached through refresh has settled on the failure path
C2_Witness ==
    /\ \E c \in Calls : vm_pc[c] = [at |-> "settled", entry |-> "refresh"]
    /\ NoCallInFlight
    /\ errorMessage \in ErrorDescriptions
    /\ ~isLoading

\* C3: parse_property raises ValueError exactly when the token does not hold
\* exactly one ':' (none, or two or more); with exactly one ':' it returns
\* one descriptor <<name, type, optional>>.
ColonCount(s) == Cardinality({i \in 1..Len(s) : s[i] = ":"})

C3_RaisesIffNotOneSeparator ==
    pp_pc = "done" =>
        /\ parsed[1] = "raised" <=> ColonCount(prop_str) # 1
        /\ parsed[1] = "raised" => parsed = <<"raised", "ValueError">>
        /\ ColonCount(prop_str) = 1 =>
              /\ parsed[1] = "returned"
              /\ Len(parsed[2]) = 3
              /\ parsed[2][3] \in BOOLEAN

\* a token with two separators and text after each was rejected
C3_Witness ==
    /\ pp_pc = "done"
    /\ prop_str = <<"x", ":", "T", ":", "T">>
    /\ parsed[1] = "raised"

\* C4: every descriptor parse_property returns has a non-empty name and a
\* non-empty type, neither with leading or trailing whitespace.
NoOuterWhitespace(s) == s # <<>> => s[1] \notin Whitespace /\ s[Len(s)] \notin Whitespace

C4_DescriptorWellFormed ==
    (pp_pc = "done" /\ parsed[1] = "returned") =>
        /\ parsed[2][1] # <<>>
        /\ parsed[2][2] # <<>>
        /\ NoOuterWhitespace(parsed[2][1])
        /\ NoOuterWhitespace(parsed[2][2])

\* C5: for a token that parses to (name, type, optional), name ":" type and
\* "?" when optional spell the token with its surrounding whitespace and the
\* whitespace adjacent to the ':' removed.
AdjacentLeft(s, i) ==
    \E k \in 0..(i - 1) : /\ (k = 0 \/ s[k] = ":")
                          /\ \A j \in (k + 1)..i : s[j] \in Whitespace
AdjacentRight(s, i) ==
    \E k \in (i + 1)..(Len(s) + 1) : /\ (k = Len(s) + 1 \/ s[k] = ":")
                                     /\ \A j \in i..(k - 1) : s[j] \in Whitespace
RECURSIVE NormalizedFrom(_, _)
NormalizedFrom(s, i) ==
    IF i > Len(s) THEN <<>>
    ELSE (IF AdjacentLeft(s, i) \/ AdjacentRight(s, i) THEN <<>> ELSE <<s[i]>>)
         \o NormalizedFrom(s, i + 1)
Normalized(s) == NormalizedFrom(s, 1)
Reconstructed(d) == d[1] \o <<":">> \o d[2] \o (IF d[3] THEN <<"?">> ELSE <<>>)

C5_RoundTrip ==
    (pp_pc = "done" /\ parsed[1] = "returned") =>
        Reconstructed(parsed[2]) = Normalized(prop_str)

\* an optional field written with leading whitespace and whitespace before
\* the separator
C5_Witness ==
    /\ pp_pc = "done"
    /\ prop_str = <<" ", "x", " ", ":", "T", "?">>
    /\ parsed = <<"returned", << <<"x">>, <<"T">>, TRUE >> >>

\* C6: the accessors generate_actor emits for a field are "get" and "set"
\* followed by the field name with its first character upper-cased and every
\* later character as it is in the field name.
UpperFirst(s) == IF s = <<>> THEN <<>> ELSE <<ToUpper(s[1])>> \o Tail(s)
GetterName(line) == SubSeq(line, 2, IndexOfFragment(line, "() -> ") - 1)
SetterName(line) == SubSeq(line, 2, IndexOfFragment(line, "(_ newValue: ") - 1)

C6_AccessorFirstCharacterOnly ==
    ac_pc = "done" =>
        LET getters == LinesStarting(code, "    func get")
            setters == LinesStarting(code, "    func set")
        IN /\ Len(getters) = Len(ac_properties)
           /\ Len(setters) = Len(ac_properties)
           /\ \A i \in 1..Len(ac_properties) :
                 /\ GetterName(getters[i]) = UpperFirst(ac_properties[i][1])
                 /\ SetterName(setters[i]) = UpperFirst(ac_properties[i][1])

\* C7: generate_swift_model emits the initializer exactly when with_init is
\* set and there is at least one field; its i-th parameter and i-th body
\* assignment name the i-th field (input order, duplicates kept), and a
\* parameter has the " = nil" default exactly when its field is optional.
InitSignatures(text) == LinesStarting(text, "    init(")
InitParams(sig) == Split(SubSeq(sig, 2, Len(sig) - 1), ", ")
SelfAssigns(text) == LinesStarting(text, "        self.")

C7_InitializerMirrorsFields ==
    gm_pc = "example" =>
        LET sigs == InitSignatures(model_code)
            assigns == SelfAssigns(model_code)
            n == Len(properties)
        IN IF args.with_init /\ n > 0
           THEN /\ Len(sigs) = 1
                /\ HasLine(model_code, <<"    // MARK: - Initialization">>)
                /\ Len(InitParams(sigs[1])) = n
                /\ Len(assigns) = n
                /\ \A i \in 1..n :
                      LET param == InitParams(sigs[1])[i] IN
                      /\ <<param[1]>> = properties[i][1]
                      /\ param[Len(param)] = " = nil" <=> properties[i][3]
                      /\ assigns[i] = <<"        self.">> \o properties[i][1]
                                      \o <<" = ">> \o properties[i][1]
           ELSE /\ sigs = <<>>
                /\ assigns = <<>>
                /\ ~HasLine(model_code, <<"    // MARK: - Initialization">>)
                /\ Len(SplitLines(model_code)) = n + 2

\* an initializer over a duplicated name and a differently named optional
C7_Witness ==
    /\ gm_pc = "example"
    /\ args.with_init
    /\ properties = << << <<"tag">>, <<"UUID">>, TRUE >>,
                       << <<"id">>, <<"String">>, FALSE >> >>
    /\ Len(InitSignatures(model_code)) = 1

\* C8: with the example flag set, the line right after the model's closing
\* "}" line is empty and the example block follows it.
ExampleMarker == <<"// MARK: - Example Usage">>

C8_BlankLineBeforeExample ==
    (gm_pc \in {"output", "done"} /\ args.example) =>
        LET lines == SplitLines(model_code)
            k == IndexOfLine(lines, ExampleMarker)
        IN /\ HasLine(model_code, ExampleMarker)
           /\ k > 2
           /\ lines[k - 1] = <<>>
           /\ lines[k - 2] = <<"}">>

\* C9: every field gets exactly one example literal: true for Bool, 42 for
\* Int, 3.14 for Double and Float, the quoted placeholder for String, each
\* whether or not the field is optional; for any other type nil when the
\* field is optional and Type() when it is not.
ClaimedLiteral(p) ==
    CASE p[2] = <<"Bool">> -> <<"true">>
      [] p[2] = <<"Int">> -> <<"42">>
      [] p[2] \in {<<"Double">>, <<"Float">>} -> <<"3.14">>
      [] p[2] = <<"String">> -> <<"\"">> \o p[1] \o <<"_value\"">>
      [] OTHER -> IF p[3] THEN <<"nil">> ELSE p[2] \o <<"()">>

C9_ExampleLiteralDispatch ==
    (gm_pc \in {"output", "done"} /\ args.example) =>
        LET lines == SplitLines(model_code)
            n == Len(properties)
            k == CHOOSE i \in 1..Len(lines) : StartsWith(lines[i], "let ")
        IN /\ \E i \in 1..Len(lines) : StartsWith(lines[i], "let ")
           /\ lines[k + n + 1] = <<")">>
           /\ \A i \in 1..n :
                 lines[k + i] = <<"    ">> \o properties[i][1] \o <<": ">>
                                \o ClaimedLiteral(properties[i])
                                \o (IF i < n THEN <<",">> ELSE <<>>)

\* an optional Bool and an optional field of an unlisted type
C9_Witness ==
    /\ gm_pc = "done"
    /\ args.example
    /\ properties = << << <<"id">>, <<"Bool">>, TRUE >>,
                       << <<"tag">>, <<"UUID">>, TRUE >> >>

\* C10: the example block encodes the identifier it declares for the
\* instance and decodes the type of the generated artifact.
DeclaredInstance(text) ==
    LET line == LinesStarting(text, "let ")[1]
    IN SubSeq(line, 2, IndexOfFragment(line, " = ") - 1)
EncodedInstance(text) ==
    LET line == LinesStarting(text, "if let jsonData = try? encoder.encode(")[1]
    IN SubSeq(line, 2, Len(line) - 1)
DecodedType(text) ==
    LET line == LinesStarting(text, "if let decoded = try? decoder.decode(")[1]
    IN SubSeq(line, 2, Len(line) - 1)

C10_ExampleNamesArtifact ==
    (gm_pc \in {"output", "done"} /\ args.example) =>
        /\ DeclaredInstance(model_code) = Lower(args.name)
        /\ EncodedInstance(model_code) = DeclaredInstance(model_code)
        /\ DecodedType(model_code) = args.name

====
